---- MODULE Spec2Model ----
(***************************************************************************)
(* A model of hovinh/sudoku-solver: the cell / candidate data model        *)
(* (sudoku/unit/cell.py), the cell groups (sudoku/unit/cell_group.py), the *)
(* puzzle (sudoku/sudoku.py), the seven deduction strategies               *)
(* (sudoku/solver/strategy.py) and the fixed-point driver                  *)
(* (sudoku/solver/solver.py).                                              *)
(*                                                                         *)
(* Python lists are sequences: a cell's candidates keep their stored       *)
(* order, because NakedPairStrategy compares candidate lists with ==, and  *)
(* a dict iterates in insertion order.  A Python set of ints has no        *)
(* specified iteration order: where the code iterates one                  *)
(* (RectangleCornerReductionsStrategy) the order is drawn from SetOrders.  *)
(***************************************************************************)
EXTENDS Integers, Sequences, FiniteSets, TLC

(***************************************************************************)
(* sudoku/constant.py                                                      *)
(***************************************************************************)
NO_SOLUTION_VALUE == 0
NUMBER_OF_ROWS == 9
NUMBER_OF_COLUMNS == 9
NUMBER_OF_BOXES == 9
NUMBER_OF_CELLS == 81
BOX_WIDTH == 3
DEFAULT_POSSIBLE_CELL_VALUE == <<1, 2, 3, 4, 5, 6, 7, 8, 9>>

(***************************************************************************)
(* Generic helpers for Python lists.                                       *)
(***************************************************************************)
\* for x in s[lo..hi]: acc = Op(acc, x).  The range is split in halves so
\* that the evaluation nests only log(hi - lo) deep, and the left half is
\* evaluated to a value (it is bound as an element of a set) before the
\* right half starts, as a loop finishes one iteration before the next.
RECURSIVE FoldRange(_, _, _, _, _)
FoldRange(Op(_, _), acc, s, lo, hi) ==
    IF lo > hi THEN acc
    ELSE IF lo = hi THEN Op(acc, s[lo])
    ELSE LET mid == (lo + hi) \div 2
         IN  CHOOSE result \in
                 {FoldRange(Op, left, s, mid + 1, hi) :
                      left \in {FoldRange(Op, acc, s, lo, mid)}} : TRUE

\* for x in s: acc = Op(acc, x)
FoldLeft(Op(_, _), acc, s) == FoldRange(Op, acc, s, 1, Len(s))

\* value in list
Contains(s, v) == \E i \in 1..Len(s) : s[i] = v

\* set(list)
ToSet(s) == {s[i] : i \in 1..Len(s)}

\* list.remove(v): drops the first occurrence of v (v is in the list)
ListRemove(s, v) ==
    LET k == CHOOSE i \in 1..Len(s) :
                 s[i] = v /\ \A j \in 1..(i - 1) : s[j] # v
    IN  [i \in 1..(Len(s) - 1) |-> IF i < k THEN s[i] ELSE s[i + 1]]

\* the keys of a dict filled by "if key not in d: d[key] = ..." while
\* walking s: the distinct elements of s in first-seen order
FirstSeen(s) ==
    FoldLeft(LAMBDA acc, v : IF Contains(acc, v) THEN acc ELSE Append(acc, v),
             <<>>, s)

(***************************************************************************)
(* SudokuCell (sudoku/unit/cell.py).  A cell is a record                   *)
(* [value, candidates]; its row_id / col_id are its position in the grid.  *)
(***************************************************************************)
is_solved(cell) == cell.value # NO_SOLUTION_VALUE

number_of_candidates(cell) == Len(cell.candidates)

SudokuCell(value) ==
    LET self == [value |-> value, candidates |-> <<>>]
    IN  [self EXCEPT !.candidates =
            IF is_solved(self) THEN <<value>> ELSE DEFAULT_POSSIBLE_CELL_VALUE]

\* remove_candidate without its last two lines: the value is not set when
\* one candidate is left
remove_candidate_unpromoting(cell, value) ==
    [cell EXCEPT !.candidates = IF Contains(cell.candidates, value)
                                THEN ListRemove(cell.candidates, value)
                                ELSE cell.candidates]

\* remove_candidate as it would be if a cell left without candidates went back
\* to unsolved
remove_candidate_unsolving(cell, value) ==
    LET c1 == IF Contains(cell.candidates, value)
              THEN ListRemove(cell.candidates, value)
              ELSE cell.candidates
    IN  [value |-> IF Len(c1) = 1 THEN c1[1]
                   ELSE IF Len(c1) = 0 THEN NO_SOLUTION_VALUE
                   ELSE cell.value,
         candidates |-> c1]

remove_candidate(cell, value) ==
    LET c1 == IF Contains(cell.candidates, value)
              THEN ListRemove(cell.candidates, value)
              ELSE cell.candidates
    IN  [value |-> IF Len(c1) = 1 THEN c1[1] ELSE cell.value,
         candidates |-> c1]

\* remove_all_candidates_except without its test "value in candidates": the
\* mutation the checks must catch
remove_all_candidates_except_untested(cell, value) ==
    [cell EXCEPT !.candidates = <<value>>, !.value = value]

remove_all_candidates_except(cell, value) ==
    IF Contains(cell.candidates, value)
    THEN [value |-> value, candidates |-> <<value>>]
    ELSE cell

\* set_candidates as it would be if it added the candidates to the list it
\* holds instead of replacing the list
set_candidates_extending(cell, candidates) ==
    LET c1 == cell.candidates \o candidates
    IN  [value |-> IF Len(c1) = 1 THEN c1[1] ELSE cell.value,
         candidates |-> c1]

set_candidates(cell, candidates) ==
    [value |-> IF Len(candidates) = 1 THEN candidates[1] ELSE cell.value,
     candidates |-> candidates]

(***************************************************************************)
(* SudokuPuzzle (sudoku/sudoku.py).  The grid is grid[row_id][col_id],     *)
(* 1-based; a row, a column and a box are lists of positions <<row, col>>  *)
(* into the one grid, so the three views alias the same cells.             *)
(***************************************************************************)
at(g, p) == g[p[1]][p[2]]

put(g, p, cell) == [g EXCEPT ![p[1]][p[2]] = cell]

\* int(ch) for the characters the model's inputs use
int(ch) ==
    CASE ch = "0" -> 0 [] ch = "1" -> 1 [] ch = "2" -> 2 [] ch = "3" -> 3
      [] ch = "4" -> 4 [] ch = "5" -> 5 [] ch = "6" -> 6 [] ch = "7" -> 7
      [] ch = "8" -> 8 [] ch = "9" -> 9

\* __setup_grid reading the string column by column: the mutation the checks
\* must catch
setup_grid_by_columns(sudoku_string) ==
    [row_id \in 1..NUMBER_OF_ROWS |->
        [col_id \in 1..NUMBER_OF_COLUMNS |->
            SudokuCell(int(sudoku_string[
                (col_id - 1) * NUMBER_OF_ROWS + row_id]))]]

\* __setup_grid: str_id runs row-major over the string
setup_grid(sudoku_string) ==
    [row_id \in 1..NUMBER_OF_ROWS |->
        [col_id \in 1..NUMBER_OF_COLUMNS |->
            SudokuCell(int(sudoku_string[
                (row_id - 1) * NUMBER_OF_COLUMNS + col_id]))]]

\* __setup_rows: rows[row_id] = grid[row_id, 1:]
rows ==
    [row_id \in 1..NUMBER_OF_ROWS |->
        [col_id \in 1..NUMBER_OF_COLUMNS |-> <<row_id, col_id>>]]

\* __setup_columns: columns[col_id] = grid[1:, col_id]
columns ==
    [col_id \in 1..NUMBER_OF_COLUMNS |->
        [row_id \in 1..NUMBER_OF_ROWS |-> <<row_id, col_id>>]]

\* __setup_boxes with start_col_id computed like start_row_id: the mutation
\* the checks must catch
boxes_in_one_column ==
    [box_id \in 1..NUMBER_OF_BOXES |->
        LET start_row_id == ((box_id - 1) \div BOX_WIDTH) * BOX_WIDTH + 1
            start_col_id == ((box_id - 1) \div BOX_WIDTH) * BOX_WIDTH + 1
        IN  [k \in 1..(BOX_WIDTH * BOX_WIDTH) |->
                <<start_row_id + ((k - 1) \div BOX_WIDTH),
                  start_col_id + ((k - 1) % BOX_WIDTH)>>]]

\* __setup_boxes: boxes[box_id] = grid[sr:sr+3, sc:sc+3].flatten()
boxes ==
    [box_id \in 1..NUMBER_OF_BOXES |->
        LET start_row_id == ((box_id - 1) \div BOX_WIDTH) * BOX_WIDTH + 1
            start_col_id == ((box_id - 1) % BOX_WIDTH) * BOX_WIDTH + 1
        IN  [k \in 1..(BOX_WIDTH * BOX_WIDTH) |->
                <<start_row_id + ((k - 1) \div BOX_WIDTH),
                  start_col_id + ((k - 1) % BOX_WIDTH)>>]]

\* iterate_over_cells: the grid flattened row-major
iterate_over_cells ==
    [k \in 1..NUMBER_OF_CELLS |->
        <<((k - 1) \div NUMBER_OF_COLUMNS) + 1,
          ((k - 1) % NUMBER_OF_COLUMNS) + 1>>]

\* iterate_over_all_units: rows, then columns, then boxes
iterate_over_all_units == rows \o columns \o boxes

\* to_box_id with offset = 0: the mutation the checks must catch
to_box_id_without_offset(row_id, col_id) ==
    ((row_id - 1) \div BOX_WIDTH) * BOX_WIDTH
        + ((col_id - 1) \div BOX_WIDTH)

to_box_id(row_id, col_id) ==
    ((row_id - 1) \div BOX_WIDTH) * BOX_WIDTH
        + ((col_id - 1) \div BOX_WIDTH) + 1

count_solved_cells(g) ==
    FoldLeft(LAMBDA n, p : IF is_solved(at(g, p)) THEN n + 1 ELSE n,
             0, iterate_over_cells)

count_total_candidates(g) ==
    FoldLeft(LAMBDA n, p : n + number_of_candidates(at(g, p)),
             0, iterate_over_cells)

puzzle_is_solved(g) == count_solved_cells(g) = NUMBER_OF_CELLS

\* the candidates of the cells of a unit, concatenated in iteration order
unit_candidates(g, unit) ==
    FoldLeft(LAMBDA acc, p : acc \o at(g, p).candidates, <<>>, unit)

\* the dict "candidate -> cells that list it" of the strategies: its keys in
\* insertion order, and the cell list of one key
candidate_keys(g, unit) == FirstSeen(unit_candidates(g, unit))

candidate_cells(g, unit, candidate) ==
    SelectSeq(unit, LAMBDA p : Contains(at(g, p).candidates, candidate))

(***************************************************************************)
(* SudokuCellGroup.get_unique_candidates_and_belonging_cells               *)
(***************************************************************************)
\* candidate_count[candidate]: how often the candidate is met while walking
\* the candidates of the cells of the unit
candidate_count(g, unit, candidate) ==
    LET met == unit_candidates(g, unit)
    IN  Cardinality({i \in 1..Len(met) : met[i] = candidate})

\* candidate_cell_map[candidate]: the cell in which the candidate is met first
candidate_cell_map(g, unit, candidate) ==
    candidate_cells(g, unit, candidate)[1]

\* the list without its test "count == 1": the mutation the checks must
\* catch
get_all_candidates_and_first_cells(g, unit) ==
    LET keys == candidate_keys(g, unit)
    IN  [i \in 1..Len(keys) |->
            <<keys[i], candidate_cell_map(g, unit, keys[i])>>]

get_unique_candidates_and_belonging_cells(g, unit) ==
    LET keys == candidate_keys(g, unit)
        only == SelectSeq(keys,
                    LAMBDA c : candidate_count(g, unit, c) = 1)
    IN  [i \in 1..Len(only) |->
            <<only[i], candidate_cell_map(g, unit, only[i])>>]

(***************************************************************************)
(* Strategies (sudoku/solver/strategy.py).  Each apply maps a grid to the  *)
(* grid it leaves behind; a loop of the code is a FoldLeft in its order.   *)
(***************************************************************************)

\* the cell at p replaced by Op(cell)
update(g, p, Op(_)) == put(g, p, Op(at(g, p)))

\* the pruning of one peer left out: the mutation the checks must catch
prune_peer_skipped(g, peer, solved_value) == g

\* UniqueStrategy.prune_solved_value_from_units_containing_cell
prune_peer(g, peer, solved_value) ==
    IF (~is_solved(at(g, peer))) /\ Contains(at(g, peer).candidates, solved_value)
    THEN update(g, peer, LAMBDA c : remove_candidate(c, solved_value))
    ELSE g

prune_solved_value_from_units_containing_cell(g, p) ==
    IF is_solved(at(g, p))
    THEN LET solved_value == at(g, p).value
             box_id == to_box_id(p[1], p[2])
             prune(acc, peer) == prune_peer(acc, peer, solved_value)
             g1 == FoldLeft(prune, g, rows[p[1]])
             g2 == FoldLeft(prune, g1, columns[p[2]])
         IN  FoldLeft(prune, g2, boxes[box_id])
    ELSE g

\* the "hidden singles" loop without the pruning that follows a promotion:
\* the mutation the checks must catch
fill_hidden_singles_unpruned(g, unit) ==
    FoldLeft(LAMBDA acc, e :
                 update(acc, e[2],
                        LAMBDA c : remove_all_candidates_except(c, e[1])),
             g, get_unique_candidates_and_belonging_cells(g, unit))

\* one unit of the "hidden singles" loop: the list of unique candidates is
\* computed once, before the promotions and prunings it drives
fill_hidden_singles(g, unit) ==
    FoldLeft(LAMBDA acc, e :
                 prune_solved_value_from_units_containing_cell(
                     update(acc, e[2],
                            LAMBDA c : remove_all_candidates_except(c, e[1])),
                     e[2]),
             g, get_unique_candidates_and_belonging_cells(g, unit))

UniqueStrategy_apply(g) ==
    LET g1 == FoldLeft(LAMBDA acc, row :
                           FoldLeft(prune_solved_value_from_units_containing_cell,
                                    acc, row),
                       g, rows)
    IN  FoldLeft(fill_hidden_singles, g1, iterate_over_all_units)

\* the candidates of the dict whose cell list has exactly n cells, in dict order
potential_hidden(g, unit, n) ==
    SelectSeq(candidate_keys(g, unit),
              LAMBDA c : Len(candidate_cells(g, unit, c)) = n)

\* for cell in cells: cell.set_candidates(new_candidates)
set_candidates_of(g, cells, new_candidates) ==
    FoldLeft(LAMBDA acc, p :
                 update(acc, p, LAMBDA c : set_candidates(c, new_candidates)),
             g, cells)

\* the scan of a unit without the test "cells == other_cells": any two
\* potential candidates are written to the cells of the first
hidden_pair_unit_unmatched(g0, unit) ==
    LET potential == potential_hidden(g0, unit, 2)
        cells_of(c) == candidate_cells(g0, unit, c)
    IN  FoldLeft(LAMBDA acc1, candidate :
            FoldLeft(LAMBDA acc2, other_candidate :
                IF candidate # other_candidate
                THEN set_candidates_of(acc2, cells_of(candidate),
                                       <<candidate, other_candidate>>)
                ELSE acc2,
              acc1, potential),
          g0, potential)

\* HiddenCandidatePairStrategy.apply, one unit: the dict and the potential
\* pairs are built from the unit as it is when its scan starts (g0)
hidden_pair_unit(g0, unit) ==
    LET potential == potential_hidden(g0, unit, 2)
        cells_of(c) == candidate_cells(g0, unit, c)
    IN  FoldLeft(LAMBDA acc1, candidate :
            FoldLeft(LAMBDA acc2, other_candidate :
                IF candidate # other_candidate
                   /\ cells_of(candidate) = cells_of(other_candidate)
                THEN set_candidates_of(acc2, cells_of(candidate),
                                       <<candidate, other_candidate>>)
                ELSE acc2,
              acc1, potential),
          g0, potential)

HiddenCandidatePairStrategy_apply(g) ==
    FoldLeft(hidden_pair_unit, g, iterate_over_all_units)

\* HiddenCandidateTripletStrategy.apply, one unit
hidden_triplet_unit(g0, unit) ==
    LET potential == potential_hidden(g0, unit, 3)
        cells_of(c) == candidate_cells(g0, unit, c)
    IN  FoldLeft(LAMBDA acc1, candidate :
            FoldLeft(LAMBDA acc2, other_candidate :
                FoldLeft(LAMBDA acc3, another_candidate :
                    IF Cardinality({candidate, other_candidate,
                                    another_candidate}) = 3
                       /\ cells_of(candidate) = cells_of(other_candidate)
                       /\ cells_of(other_candidate) = cells_of(another_candidate)
                    THEN set_candidates_of(acc3, cells_of(candidate),
                             <<candidate, other_candidate, another_candidate>>)
                    ELSE acc3,
                  acc2, potential),
              acc1, potential),
          g0, potential)

HiddenCandidateTripletStrategy_apply(g) ==
    FoldLeft(hidden_triplet_unit, g, iterate_over_all_units)

\* for candidate in candidates: cell.remove_candidate(candidate)
remove_candidates_at(g, p, candidates) ==
    FoldLeft(LAMBDA acc, candidate :
                 update(acc, p, LAMBDA c : remove_candidate(c, candidate)),
             g, candidates)

\* the test "peer_cell not in (cell1, cell2)" left out: the pair is removed
\* from the two cells of the pair as well
naked_pair_cells_unguarded(g, unit, cell1, cell2) ==
    IF at(g, cell1).candidates = at(g, cell2).candidates
    THEN LET pair_candidates == at(g, cell1).candidates
         IN  FoldLeft(LAMBDA acc, peer_cell :
                          remove_candidates_at(acc, peer_cell, pair_candidates),
                      g, unit)
    ELSE g

\* NakedPairStrategy.apply, one unit: two_candidate_cells is fixed when the
\* scan of the unit starts; the candidate lists it compares are read live
naked_pair_cells(g, unit, cell1, cell2) ==
    IF at(g, cell1).candidates = at(g, cell2).candidates
    THEN LET pair_candidates == at(g, cell1).candidates
         IN  FoldLeft(LAMBDA acc, peer_cell :
                          IF peer_cell \notin {cell1, cell2}
                          THEN remove_candidates_at(acc, peer_cell, pair_candidates)
                          ELSE acc,
                      g, unit)
    ELSE g

naked_pair_unit(g0, unit) ==
    LET two_candidate_cells ==
            SelectSeq(unit, LAMBDA p : Len(at(g0, p).candidates) = 2)
        n == Len(two_candidate_cells)
    IN  FoldLeft(LAMBDA acc1, i :
            FoldLeft(LAMBDA acc2, j :
                         naked_pair_cells(acc2, unit, two_candidate_cells[i],
                                          two_candidate_cells[j]),
                     acc1, [k \in 1..(n - i) |-> i + k]),
          g0, [k \in 1..n |-> k])

NakedPairStrategy_apply(g) ==
    FoldLeft(naked_pair_unit, g, iterate_over_all_units)

\* for cell in line: if cell not in cells: cell.remove_candidate(candidate)
remove_outside(g, line, cells, candidate) ==
    FoldLeft(LAMBDA acc, p :
                 IF ~Contains(cells, p)
                 THEN update(acc, p, LAMBDA c : remove_candidate(c, candidate))
                 ELSE acc,
             g, line)

\* BoxLineInterpolationStrategy.apply, one box
box_line_interpolation_candidate(g0, box, g, candidate) ==
    LET cells == candidate_cells(g0, box, candidate)
        row_ids == {cells[i][1] : i \in 1..Len(cells)}
        col_ids == {cells[i][2] : i \in 1..Len(cells)}
        g1 == IF Cardinality(row_ids) = 1
              THEN remove_outside(g, rows[CHOOSE r \in row_ids : TRUE],
                                  cells, candidate)
              ELSE g
    IN  IF Len(cells) > 1
        THEN IF Cardinality(col_ids) = 1
             THEN remove_outside(g1, columns[CHOOSE c \in col_ids : TRUE],
                                 cells, candidate)
             ELSE g1
        ELSE g

box_line_interpolation_box(g0, box) ==
    FoldLeft(LAMBDA acc, candidate :
                 box_line_interpolation_candidate(g0, box, acc, candidate),
             g0, candidate_keys(g0, box))

BoxLineInterpolationStrategy_apply(g) ==
    FoldLeft(box_line_interpolation_box, g, boxes)

\* BoxLineExtrapolationStrategy.apply, one row or one column
box_line_extrapolation_candidate(g0, line, g, candidate) ==
    LET cells == candidate_cells(g0, line, candidate)
        box_ids == {to_box_id(cells[i][1], cells[i][2]) : i \in 1..Len(cells)}
    IN  IF Cardinality(box_ids) = 1
        THEN remove_outside(g, boxes[CHOOSE b \in box_ids : TRUE],
                            cells, candidate)
        ELSE g

box_line_extrapolation_line(g0, line) ==
    FoldLeft(LAMBDA acc, candidate :
                 box_line_extrapolation_candidate(g0, line, acc, candidate),
             g0, candidate_keys(g0, line))

BoxLineExtrapolationStrategy_apply(g) ==
    FoldLeft(box_line_extrapolation_line,
             FoldLeft(box_line_extrapolation_line, g, rows),
             columns)

\* RectangleCornerReductionsStrategy.apply, one rectangle and one of its
\* common candidates: the candidate leaves every cell of the two rows and the
\* two columns that is not in a corner's column (row)
rectangle_candidate(g, top_left, bottom_right, candidate) ==
    LET strip(acc, p) == update(acc, p, LAMBDA c : remove_candidate(c, candidate))
        g1 == FoldLeft(LAMBDA acc, col_id :
                  IF col_id \notin {top_left[2], bottom_right[2]}
                  THEN strip(strip(acc, <<top_left[1], col_id>>),
                             <<bottom_right[1], col_id>>)
                  ELSE acc,
                g, [k \in 1..NUMBER_OF_COLUMNS |-> k])
    IN  FoldLeft(LAMBDA acc, row_id :
            IF row_id \notin {top_left[1], bottom_right[1]}
            THEN strip(strip(acc, <<row_id, top_left[2]>>),
                       <<row_id, bottom_right[2]>>)
            ELSE acc,
          g1, [k \in 1..NUMBER_OF_ROWS |-> k])

\* set_order lists 1..9 in the order in which a set of candidates iterates
rectangle(g, top_left, bottom_right, set_order) ==
    LET top_right == <<top_left[1], bottom_right[2]>>
        bottom_left == <<bottom_right[1], top_left[2]>>
        common_candidates ==
            ToSet(at(g, top_left).candidates)
                \cap ToSet(at(g, top_right).candidates)
                \cap ToSet(at(g, bottom_left).candidates)
                \cap ToSet(at(g, bottom_right).candidates)
    IN  FoldLeft(LAMBDA acc, candidate :
                     rectangle_candidate(acc, top_left, bottom_right, candidate),
                 g, SelectSeq(set_order, LAMBDA v : v \in common_candidates))

\* the cells below and to the right of top_left, row-major: the
\* bottom_right corners the inner loop accepts, in its order
bottom_right_corners(top_left) ==
    SelectSeq(iterate_over_cells,
              LAMBDA p : p[1] > top_left[1] /\ p[2] > top_left[2])

RectangleCornerReductionsStrategy_apply(g, set_order) ==
    FoldLeft(LAMBDA acc1, row :
        FoldLeft(LAMBDA acc2, top_left :
            FoldLeft(LAMBDA acc3, bottom_right :
                         rectangle(acc3, top_left, bottom_right, set_order),
                     acc2, bottom_right_corners(top_left)),
          acc1, row),
      g, rows)

(***************************************************************************)
(* The strategies by name, as a solver's list holds them.                  *)
(***************************************************************************)
Strategy ==
    {"UniqueStrategy", "HiddenCandidatePairStrategy",
     "HiddenCandidateTripletStrategy", "NakedPairStrategy",
     "BoxLineInterpolationStrategy", "BoxLineExtrapolationStrategy",
     "RectangleCornerReductionsStrategy"}

\* Orders in which a set of candidates may iterate: ascending, and the order
\* of the slots of a small hash table (8 in slot 0, 9 colliding with 1).
SetOrders ==
    {<<1, 2, 3, 4, 5, 6, 7, 8, 9>>, <<8, 9, 1, 2, 3, 4, 5, 6, 7>>}

\* the orders that matter to a strategy: only the rectangle strategy
\* iterates a set
set_orders_of(strategy) ==
    IF strategy = "RectangleCornerReductionsStrategy"
    THEN SetOrders
    ELSE {DEFAULT_POSSIBLE_CELL_VALUE}

\* strategy.apply(puzzle)
apply(strategy, g, set_order) ==
    CASE strategy = "UniqueStrategy" -> UniqueStrategy_apply(g)
      [] strategy = "HiddenCandidatePairStrategy" ->
            HiddenCandidatePairStrategy_apply(g)
      [] strategy = "HiddenCandidateTripletStrategy" ->
            HiddenCandidateTripletStrategy_apply(g)
      [] strategy = "NakedPairStrategy" -> NakedPairStrategy_apply(g)
      [] strategy = "BoxLineInterpolationStrategy" ->
            BoxLineInterpolationStrategy_apply(g)
      [] strategy = "BoxLineExtrapolationStrategy" ->
            BoxLineExtrapolationStrategy_apply(g)
      [] strategy = "RectangleCornerReductionsStrategy" ->
            RectangleCornerReductionsStrategy_apply(g, set_order)

(***************************************************************************)
(* SudokuSolver.solve (sudoku/solver/solver.py): the tests of its loops.   *)
(***************************************************************************)
\* made_progress as it would be with <= for <
made_progress_or_equal(current_total, last_total) ==
    current_total <= last_total

\* made_progress as it would be if the break of the inner loop were lost
made_progress_never(current_total, last_total) == FALSE

made_progress(current_total, last_total) == current_total < last_total

\* no_new_progress as it would be if the stalled exit were lost
no_new_progress_never(current_total, last_total) == FALSE

no_new_progress(current_total, last_total) == current_total = last_total

\* len(self.strategies) == 0
no_strategies(strategy_list) == Len(strategy_list) = 0

\* solve_entry as it would be if solve first pruned the puzzle and only then
\* looked at its list
solve_entry_pruning(g, strategy_list) ==
    LET pruned == UniqueStrategy_apply(g)
    IN  IF no_strategies(strategy_list)
        THEN [raised |-> TRUE, puzzle |-> pruned,
              last_total_number_of_candidates |-> 0]
        ELSE [raised |-> FALSE, puzzle |-> pruned,
              last_total_number_of_candidates |->
                  count_total_candidates(pruned)]

\* solve up to the first while: ValueError if the list is empty, else the
\* first count; puzzle is the puzzle as solve leaves it there
solve_entry(g, strategy_list) ==
    IF no_strategies(strategy_list)
    THEN [raised |-> TRUE, puzzle |-> g, last_total_number_of_candidates |-> 0]
    ELSE [raised |-> FALSE, puzzle |-> g,
          last_total_number_of_candidates |-> count_total_candidates(g)]

(***************************************************************************)
(* Inputs.  Every puzzle of the catalogue is the completed grid Solved     *)
(* with some cells blanked ('0'); each has Solved as its only solution.    *)
(***************************************************************************)
Solved ==
    <<"6", "7", "9", "8", "3", "5", "4", "1", "2",
      "1", "2", "3", "6", "9", "4", "7", "5", "8",
      "5", "4", "8", "2", "1", "7", "9", "3", "6",
      "4", "1", "6", "7", "2", "3", "8", "9", "5",
      "8", "9", "2", "5", "6", "1", "3", "7", "4",
      "7", "3", "5", "4", "8", "9", "6", "2", "1",
      "2", "8", "7", "9", "5", "6", "1", "4", "3",
      "9", "6", "1", "3", "4", "2", "5", "8", "7",
      "3", "5", "4", "1", "7", "8", "2", "6", "9">>

\* the cells left blank in each puzzle of the catalogue
Blanks ==
    <<{<<1, 1>>, <<1, 4>>, <<5, 1>>, <<5, 4>>},
      {<<1, 1>>, <<1, 2>>},
      {<<1, 1>>, <<1, 2>>, <<1, 5>>, <<4, 1>>, <<4, 2>>},
      {},
      {<<1, 1>>, <<1, 2>>, <<1, 5>>, <<4, 1>>, <<4, 2>>, <<4, 5>>},
      {<<1, 1>>, <<1, 2>>, <<2, 2>>, <<6, 1>>}>>

\* the 81-character string of puzzle k, row-major
sudoku_string_of(k) ==
    [i \in 1..NUMBER_OF_CELLS |->
        IF iterate_over_cells[i] \in Blanks[k] THEN "0" ELSE Solved[i]]

\* how many puzzles of the catalogue are inputs
NumPuzzles == 3

\* how many times solve is called on one puzzle
MaxSolveCalls == 2

\* the longest list of strategies a solver is constructed with
MaxStrategies == 2

\* the strategies the solvers of the model are given: solve treats every
\* strategy alike (apply, then count), so the lists draw on one strategy
\* that fills cells, two that compare candidate lists and the rectangle one
SolverStrategies ==
    {"UniqueStrategy", "HiddenCandidatePairStrategy", "NakedPairStrategy",
     "RectangleCornerReductionsStrategy"}

StrategyLists ==
    UNION {[1..n -> SolverStrategies] : n \in 0..MaxStrategies}

(***************************************************************************)
(* State.                                                                  *)
(*   grid, puzzle: the SudokuPuzzle and the catalogue entry it was built   *)
(*     from;                                                               *)
(*   strategies: the list of the SudokuSolver;                             *)
(*   pc, strategy_index, last_total_number_of_candidates,                  *)
(*     current_total_number_of_candidates: solve's position and locals;    *)
(*   calls .. outer_iterations record the history the properties speak     *)
(*     of;                                                                 *)
(*   sudoku_string: the string the puzzle is constructed from;             *)
(*   outcome: what the last call of a query or of a cell operation         *)
(*     returned or raised.                                                 *)
(***************************************************************************)
VARIABLES grid, puzzle, strategies, pc, strategy_index,
          last_total_number_of_candidates,
          current_total_number_of_candidates,
          calls, grid_at_call, prev_index, prev_progress,
          no_progress_run, solved_by_application, outer_iterations,
          sudoku_string, outcome

\* the argument of SudokuPuzzle(...) and the outcome of the last call made
\* on the puzzle's interface
api_vars == <<puzzle, sudoku_string, outcome>>

solver_vars ==
    <<strategies, pc, strategy_index, last_total_number_of_candidates,
      current_total_number_of_candidates>>

history_vars ==
    <<calls, grid_at_call, prev_index, prev_progress,
      no_progress_run, solved_by_application, outer_iterations>>

vars == <<grid, api_vars, solver_vars, history_vars>>

\* no call was made yet
no_call == [op |-> "none"]

\* SudokuPuzzle(sudoku_string); no solver exists yet
Init ==
    /\ puzzle \in 1..NumPuzzles
    /\ sudoku_string = sudoku_string_of(puzzle)
    /\ outcome = no_call
    /\ grid = setup_grid(sudoku_string_of(puzzle))
    /\ strategies = <<>>
    /\ pc = "idle"
    /\ strategy_index = 0
    /\ last_total_number_of_candidates = 0
    /\ current_total_number_of_candidates = 0
    /\ calls = 0
    /\ grid_at_call = grid
    /\ prev_index = -1
    /\ prev_progress = FALSE
    /\ no_progress_run = 0
    /\ solved_by_application = FALSE
    /\ outer_iterations = 0

\* strategy.apply(puzzle), called directly
ApplyStrategy(strategy) ==
    /\ pc = "idle"
    /\ \E set_order \in set_orders_of(strategy) :
           grid' = apply(strategy, grid, set_order)
    /\ UNCHANGED <<api_vars, solver_vars, history_vars>>

Next == \E strategy \in Strategy : ApplyStrategy(strategy)

Spec == Init /\ [][Next]_vars

(***************************************************************************)
(* SudokuSolver: the constructor and solve, one action per step of solve.  *)
(* pc: "idle" (no solver), "constructed", "outer" (top of while True),     *)
(* "inner" (the test of the inner while), "check" (after the inner loop),  *)
(* "returned", "raised" (ValueError).                                      *)
(***************************************************************************)
\* the constructor as it would be if it refused an empty list
SolverInit_refusing(strategy_list) ==
    /\ pc = "idle"
    /\ strategies' = strategy_list
    /\ pc' = IF no_strategies(strategy_list) THEN "raised" ELSE "constructed"
    /\ UNCHANGED <<grid, api_vars, strategy_index,
                   last_total_number_of_candidates,
                   current_total_number_of_candidates, history_vars>>

\* SudokuSolver(strategies=strategy_list): stores the list, checks nothing
SolverInit(strategy_list) ==
    /\ pc = "idle"
    /\ strategies' = strategy_list
    /\ pc' = "constructed"
    /\ UNCHANGED <<grid, api_vars, strategy_index,
                   last_total_number_of_candidates,
                   current_total_number_of_candidates, history_vars>>

\* solve(puzzle), up to the first while: the check of the list, then the
\* first count
SolveCall ==
    /\ pc \in {"constructed", "returned"}
    /\ calls < MaxSolveCalls
    /\ calls' = calls + 1
    /\ grid_at_call' = grid
    /\ prev_index' = -1
    /\ prev_progress' = FALSE
    /\ no_progress_run' = 0
    /\ solved_by_application' = FALSE
    /\ outer_iterations' = 0
    /\ LET entry == solve_entry(grid, strategies)
       IN  /\ grid' = entry.puzzle
           /\ IF entry.raised
              THEN /\ pc' = "raised"
                   /\ UNCHANGED last_total_number_of_candidates
              ELSE /\ pc' = "outer"
                   /\ last_total_number_of_candidates' =
                          entry.last_total_number_of_candidates
    /\ UNCHANGED <<api_vars, strategies, strategy_index,
                   current_total_number_of_candidates>>

\* scan_start as it would be if strategy_index were set once, before the
\* while True, and not at the top of its body
scan_start_kept == strategy_index

\* the index at which every scan of the strategies starts
scan_start == 0

\* while True: strategy_index = 0; current = last
OuterLoop ==
    /\ pc = "outer"
    /\ strategy_index' = scan_start
    /\ current_total_number_of_candidates' = last_total_number_of_candidates
    /\ pc' = "inner"
    /\ outer_iterations' =
           IF outer_iterations > count_total_candidates(grid_at_call) + 1
           THEN outer_iterations
           ELSE outer_iterations + 1
    /\ UNCHANGED <<grid, api_vars, strategies, last_total_number_of_candidates,
                   calls, grid_at_call, prev_index,
                   prev_progress, no_progress_run, solved_by_application>>

\* one pass of the inner while body: apply the strategy, count, test
InnerApply ==
    /\ pc = "inner"
    /\ strategy_index < Len(strategies)
    /\ LET strategy == strategies[strategy_index + 1]
       IN  \E set_order \in set_orders_of(strategy) :
               grid' = apply(strategy, grid, set_order)
    /\ current_total_number_of_candidates' = count_total_candidates(grid')
    /\ IF made_progress(current_total_number_of_candidates',
                        last_total_number_of_candidates)
       THEN /\ pc' = "check"
            /\ UNCHANGED strategy_index
       ELSE /\ pc' = "inner"
            /\ strategy_index' = strategy_index + 1
    /\ prev_index' = strategy_index
    /\ prev_progress' = made_progress(current_total_number_of_candidates',
                                      last_total_number_of_candidates)
    /\ no_progress_run' =
           IF count_total_candidates(grid') = count_total_candidates(grid)
              /\ no_progress_run = strategy_index
           THEN no_progress_run + 1
           ELSE 0
    /\ solved_by_application' =
           (solved_by_application
                \/ (~puzzle_is_solved(grid) /\ puzzle_is_solved(grid')))
    /\ UNCHANGED <<api_vars, strategies, last_total_number_of_candidates,
                   calls, grid_at_call, outer_iterations>>

\* the inner while ends: every strategy of the list was tried
InnerLoopEnd ==
    /\ pc = "inner"
    /\ ~(strategy_index < Len(strategies))
    /\ pc' = "check"
    /\ UNCHANGED <<grid, api_vars, strategies, strategy_index,
                   last_total_number_of_candidates,
                   current_total_number_of_candidates, history_vars>>

\* after the inner loop: has_solved, no_new_progress, or go round again
Check ==
    /\ pc = "check"
    /\ IF puzzle_is_solved(grid)
       THEN /\ pc' = "returned"
            /\ UNCHANGED last_total_number_of_candidates
       ELSE IF no_new_progress(current_total_number_of_candidates,
                               last_total_number_of_candidates)
       THEN /\ pc' = "returned"
            /\ UNCHANGED last_total_number_of_candidates
       ELSE /\ pc' = "outer"
            /\ last_total_number_of_candidates' =
                   current_total_number_of_candidates
    /\ UNCHANGED <<grid, api_vars, strategies, strategy_index,
                   current_total_number_of_candidates, history_vars>>

NextSolve ==
    \/ \E strategy_list \in StrategyLists : SolverInit(strategy_list)
    \/ SolveCall
    \/ OuterLoop
    \/ InnerApply
    \/ InnerLoopEnd
    \/ Check

\* where solve is: its position and the index of its scan; every step of
\* solve changes it
solve_position == <<pc, strategy_index>>

\* a step of a running solve
SolveStep ==
    /\ pc \in {"outer", "inner", "check"}
    /\ pc' \in {"outer", "inner", "check", "returned"}
    /\ strategy_index' \in 0..(Len(strategies) + 1)

\* a running solve runs to its end: nothing suspends it.  Constructing a
\* solver and calling solve are left to the caller.
SpecSolve ==
    Init /\ [][NextSolve]_vars /\ WF_solve_position(SolveStep)

(***************************************************************************)
(* The interface of the puzzle as a caller meets it: the constructor on    *)
(* any string, then one query or cell operation, direct applications of    *)
(* UniqueStrategy, or a solver with the list [UniqueStrategy], as          *)
(* tests/test_sudoku.py and tests/solver/test_solver.py do.                *)
(* pc: "new" (nothing constructed), "construct_raised", "idle", "called"   *)
(* (the one call was made), and the positions of solve.                    *)
(***************************************************************************)
\* the 17-given string of the tests
TestString ==
    <<"0", "0", "0", "0", "0", "0", "0", "1", "2",
      "0", "0", "3", "6", "0", "0", "0", "0", "0",
      "0", "0", "0", "0", "0", "7", "0", "0", "0",
      "4", "1", "0", "0", "2", "0", "0", "0", "0",
      "0", "0", "0", "5", "0", "0", "3", "0", "0",
      "7", "0", "0", "0", "0", "0", "6", "0", "0",
      "2", "8", "0", "0", "0", "0", "0", "4", "0",
      "0", "0", "0", "3", "0", "0", "5", "0", "0",
      "0", "0", "0", "0", "0", "0", "0", "0", "0">>

\* how far from 81 the length of an input string may be
MaxLengthError == 1

\* characters of input strings that are no decimal digits
OtherCharacters == {"a", ".", " "}

\* TestString cut or padded with "0" to a length
resized(length) ==
    [k \in 1..length |-> IF k <= Len(TestString) THEN TestString[k] ELSE "0"]

\* the strings the constructor is called with: well-formed ones, strings
\* too short and too long, and strings with one character that is no digit
InputStrings ==
    {TestString, Solved}
        \cup {sudoku_string_of(k) : k \in 1..NumPuzzles}
        \cup {resized(NUMBER_OF_CELLS + d) :
                    d \in (0 - MaxLengthError)..MaxLengthError}
        \cup {[TestString EXCEPT ![k] = ch] :
                    k \in {1, 41, NUMBER_OF_CELLS}, ch \in OtherCharacters}

\* the decimal digits; int(ch) raises ValueError for the other characters
\* of the model's inputs
Digits == {"0", "1", "2", "3", "4", "5", "6", "7", "8", "9"}

int_raises(ch) == ch \notin Digits

\* before a puzzle exists
no_grid == <<>>

\* SudokuPuzzle(sudoku_string): __setup_grid reads sudoku_string[0] ..
\* sudoku_string[80] in order and passes each character to int; a read past
\* the end raises IndexError, a character int refuses raises ValueError.
\* Nothing looks at the length of the string.
SudokuPuzzle_init(s) ==
    LET failing == {k \in 1..NUMBER_OF_CELLS :
                        k > Len(s) \/ int_raises(s[k])}
    IN  IF failing = {}
        THEN [raised |-> "none", grid |-> setup_grid(s)]
        ELSE LET first == CHOOSE k \in failing : \A j \in failing : k <= j
             IN  [raised |-> IF first > Len(s) THEN "IndexError"
                             ELSE "ValueError",
                  grid |-> no_grid]

\* nothing is constructed yet; the caller holds a string
InitApi ==
    /\ sudoku_string \in InputStrings
    /\ puzzle = 0
    /\ outcome = no_call
    /\ grid = no_grid
    /\ strategies = <<>>
    /\ pc = "new"
    /\ strategy_index = 0
    /\ last_total_number_of_candidates = 0
    /\ current_total_number_of_candidates = 0
    /\ calls = 0
    /\ grid_at_call = no_grid
    /\ prev_index = -1
    /\ prev_progress = FALSE
    /\ no_progress_run = 0
    /\ solved_by_application = FALSE
    /\ outer_iterations = 0

\* puzzle = SudokuPuzzle(sudoku_string)
Construct ==
    /\ pc = "new"
    /\ LET made == SudokuPuzzle_init(sudoku_string)
       IN  /\ grid' = made.grid
           /\ pc' = IF made.raised = "none" THEN "idle" ELSE "construct_raised"
           /\ outcome' = [op |-> "SudokuPuzzle", raised |-> made.raised]
    /\ UNCHANGED <<puzzle, sudoku_string, strategies, strategy_index,
                   last_total_number_of_candidates,
                   current_total_number_of_candidates, history_vars>>

\* the placeholder at index 0 of the array and of each of its rows
None == [placeholder |-> TRUE]

\* a cell as an object of the array: its ids and its state
cell_object(row_id, col_id, cell) ==
    [row_id |-> row_id, col_id |-> col_id,
     value |-> cell.value, candidates |-> cell.candidates]

\* the array __setup_grid builds: a row of None, then for each row_id the
\* list [None] followed by the cells of col_id 1..9; Python index k is
\* sequence index k + 1
grid_array(g) ==
    <<[k \in 1..(NUMBER_OF_COLUMNS + 1) |-> None]>>
        \o [row_id \in 1..NUMBER_OF_ROWS |->
                <<None>> \o [col_id \in 1..NUMBER_OF_COLUMNS |->
                                cell_object(row_id, col_id, g[row_id][col_id])]]

\* self.grid[i, j] for indices inside the array
array_item(array, i, j) == array[i + 1][j + 1]

\* __getitem__ with its lower tests at 0: the mutation the checks must catch
getitem_from_zero(g, i, j) ==
    IF (0 <= i /\ i <= NUMBER_OF_ROWS) /\ (0 <= j /\ j <= NUMBER_OF_COLUMNS)
    THEN [raised |-> "none", cell |-> array_item(grid_array(g), i, j)]
    ELSE [raised |-> "IndexError", cell |-> None]

\* puzzle[i, j]
getitem(g, i, j) ==
    IF (1 <= i /\ i <= NUMBER_OF_ROWS) /\ (1 <= j /\ j <= NUMBER_OF_COLUMNS)
    THEN [raised |-> "none", cell |-> array_item(grid_array(g), i, j)]
    ELSE [raised |-> "IndexError", cell |-> None]

\* how far outside 1..9 the indices of a call may be
IndexMargin == 1

Indices == (1 - IndexMargin)..(NUMBER_OF_ROWS + IndexMargin)

\* the variables a query leaves alone
query_frame ==
    <<grid, puzzle, sudoku_string, strategies, strategy_index,
      last_total_number_of_candidates, current_total_number_of_candidates,
      history_vars>>

\* cell = puzzle[i, j]
GetItem(i, j) ==
    /\ pc = "idle"
    /\ LET got == getitem(grid, i, j)
       IN  outcome' = [op |-> "getitem", index |-> <<i, j>>,
                       raised |-> got.raised, cell |-> got.cell]
    /\ pc' = "called"
    /\ UNCHANGED query_frame

\* how far outside 0..9 the value given to SudokuCell may be
ValueMargin == 1

\* the value argument of SudokuCell(row_id, col_id, value): an int around
\* 0..9, or something that is no int
CellArguments ==
    {[type |-> "int", int |-> v] :
        v \in (0 - ValueMargin)..(NUMBER_OF_ROWS + ValueMargin)}
        \cup {[type |-> "str", str |-> "5"]}

\* SudokuCell.__init__: the only test is isinstance(value, int); the value
\* is stored in _value directly, not through the setter that checks it
SudokuCell_init(argument) ==
    IF argument.type = "int"
    THEN [raised |-> "none", cell |-> SudokuCell(argument.int)]
    ELSE [raised |-> "TypeError", cell |-> None]

\* cell = SudokuCell(1, 1, value), without any puzzle
NewCell(argument) ==
    /\ pc = "new"
    /\ LET made == SudokuCell_init(argument)
       IN  outcome' = [op |-> "SudokuCell", argument |-> argument,
                       raised |-> made.raised, cell |-> made.cell]
    /\ pc' = "called"
    /\ UNCHANGED query_frame

\* to_box_id raises ValueError when the id it computed is outside 1..9
to_box_id_raises(row_id, col_id) ==
    LET box_id == to_box_id(row_id, col_id)
    IN  box_id < 1 \/ box_id > NUMBER_OF_BOXES

\* box_id = puzzle.to_box_id(row_id, col_id)
ToBoxId(row_id, col_id) ==
    /\ pc = "idle"
    /\ outcome' =
            IF to_box_id_raises(row_id, col_id)
            THEN [op |-> "to_box_id", index |-> <<row_id, col_id>>,
                  raised |-> "ValueError", box_id |-> 0]
            ELSE [op |-> "to_box_id", index |-> <<row_id, col_id>>,
                  raised |-> "none", box_id |-> to_box_id(row_id, col_id)]
    /\ pc' = "called"
    /\ UNCHANGED query_frame

\* a puzzle exists
constructed == pc \notin {"new", "construct_raised"}

\* the values a caller passes to the operations on candidates
CandidateValues == {1, 5, 9}

\* unit[k].remove_candidate(value), for the k-th cell of the u-th unit of
\* iterate_over_all_units
RemoveCandidate(u, k, value) ==
    /\ pc = "idle"
    /\ LET p == iterate_over_all_units[u][k]
       IN  /\ grid' = put(grid, p, remove_candidate(at(grid, p), value))
           /\ outcome' = [op |-> "remove_candidate", unit |-> u, cell |-> p,
                          value |-> value, before |-> at(grid, p)]
    /\ pc' = "called"
    /\ UNCHANGED <<puzzle, sudoku_string, strategies, strategy_index,
                   last_total_number_of_candidates,
                   current_total_number_of_candidates, history_vars>>

\* n = puzzle.count_solved_cells()
CountSolvedCells ==
    /\ pc = "idle"
    /\ outcome' = [op |-> "count_solved_cells",
                   result |-> count_solved_cells(grid)]
    /\ pc' = "called"
    /\ UNCHANGED query_frame

\* b = puzzle.is_solved()
IsSolved ==
    /\ pc = "idle"
    /\ outcome' = [op |-> "is_solved", result |-> puzzle_is_solved(grid)]
    /\ pc' = "called"
    /\ UNCHANGED query_frame

\* UniqueStrategy().apply(puzzle), called directly; the caller keeps a copy
\* of the puzzle as it was
UniqueApply ==
    /\ pc = "idle"
    /\ grid' = UniqueStrategy_apply(grid)
    /\ outcome' = [op |-> "UniqueStrategy.apply", before |-> grid]
    /\ pc' = "idle"
    /\ UNCHANGED <<puzzle, sudoku_string, strategies, strategy_index,
                   last_total_number_of_candidates,
                   current_total_number_of_candidates, history_vars>>

\* solver = SudokuSolver(strategies=[UniqueStrategy()]), made for the puzzle
\* just constructed, as tests/solver/test_solver.py does
NewSolver ==
    /\ outcome.op = "SudokuPuzzle"
    /\ SolverInit(<<"UniqueStrategy">>)

\* puzzle[row, col].remove_all_candidates_except(value)
RemoveAllCandidatesExcept(p, value) ==
    /\ pc = "idle"
    /\ grid' = put(grid, p, remove_all_candidates_except(at(grid, p), value))
    /\ outcome' = [op |-> "remove_all_candidates_except", cell |-> p,
                   value |-> value, before |-> at(grid, p)]
    /\ pc' = "called"
    /\ UNCHANGED <<puzzle, sudoku_string, strategies, strategy_index,
                   last_total_number_of_candidates,
                   current_total_number_of_candidates, history_vars>>

\* pairs = unit.get_unique_candidates_and_belonging_cells(), for the u-th
\* unit of iterate_over_all_units; the caller keeps a copy of the puzzle as
\* it was
GetUnique(u) ==
    /\ pc = "idle"
    /\ outcome' =
            [op |-> "get_unique_candidates_and_belonging_cells",
             unit |-> u, before |-> grid,
             result |-> get_unique_candidates_and_belonging_cells(
                            grid, iterate_over_all_units[u])]
    /\ pc' = "called"
    /\ UNCHANGED query_frame

NextApi ==
    \/ Construct
    \/ \E i \in Indices, j \in Indices : GetItem(i, j)
    \/ \E argument \in CellArguments : NewCell(argument)
    \/ \E row_id \in Indices, col_id \in Indices : ToBoxId(row_id, col_id)
    \/ \E u \in 1..Len(iterate_over_all_units), k \in 1..NUMBER_OF_ROWS,
          value \in CandidateValues : RemoveCandidate(u, k, value)
    \/ CountSolvedCells
    \/ IsSolved
    \/ UniqueApply
    \/ NewSolver
    \/ SolveCall
    \/ OuterLoop
    \/ InnerApply
    \/ InnerLoopEnd
    \/ Check
    \/ \E p \in ToSet(iterate_over_cells), value \in CandidateValues :
            RemoveAllCandidatesExcept(p, value)
    \/ \E u \in 1..Len(iterate_over_all_units) : GetUnique(u)

SpecApi == InitApi /\ [][NextApi]_vars

(***************************************************************************)
(* Direct applications whose caller keeps the puzzle as it was before the  *)
(* call: SpecApply with the seven strategies, SpecSound with the six that  *)
(* are not the rectangle strategy.                                         *)
(***************************************************************************)
\* the catalogue puzzles the two specifications start from
ApplyPuzzles == {1, 2, 6}

SoundPuzzles == {1, 2, 3, 5, 6}

\* SudokuPuzzle(sudoku_string) for one of the puzzles; no solver exists
InitWith(puzzles) ==
    /\ puzzle \in puzzles
    /\ sudoku_string = sudoku_string_of(puzzle)
    /\ outcome = no_call
    /\ grid = setup_grid(sudoku_string_of(puzzle))
    /\ strategies = <<>>
    /\ pc = "idle"
    /\ strategy_index = 0
    /\ last_total_number_of_candidates = 0
    /\ current_total_number_of_candidates = 0
    /\ calls = 0
    /\ grid_at_call = grid
    /\ prev_index = -1
    /\ prev_progress = FALSE
    /\ no_progress_run = 0
    /\ solved_by_application = FALSE
    /\ outer_iterations = 0

InitApply == InitWith(ApplyPuzzles)

InitSound == InitWith(SoundPuzzles)

\* before = copy.deepcopy(puzzle); strategy.apply(puzzle)
Apply(strategy) ==
    /\ pc = "idle"
    /\ \E set_order \in set_orders_of(strategy) :
           grid' = apply(strategy, grid, set_order)
    /\ outcome' = [op |-> "apply", strategy |-> strategy, before |-> grid]
    /\ UNCHANGED <<puzzle, sudoku_string, solver_vars, history_vars>>

NextApply == \E strategy \in Strategy : Apply(strategy)

SpecApply == InitApply /\ [][NextApply]_vars

\* the strategies other than the rectangle strategy
SoundStrategies == Strategy \ {"RectangleCornerReductionsStrategy"}

NextSound == \E strategy \in SoundStrategies : Apply(strategy)

SpecSound == InitSound /\ [][NextSound]_vars

(***************************************************************************)
(* Properties of the cells and of the strategies, under Spec.              *)
(***************************************************************************)
\* the digit of cell i (row-major) in the solution of every catalogue puzzle
solution_digit(i) == int(Solved[i])

\* the puzzle as it was constructed
constructed_grid == setup_grid(sudoku_string_of(puzzle))

C2_Soundness ==
    \A i \in 1..NUMBER_OF_CELLS :
        Contains(at(grid, iterate_over_cells[i]).candidates, solution_digit(i))

\* C3: monotonicity: no application of a strategy increases
\* count_total_candidates.
C3_Monotonic ==
    [][count_total_candidates(grid') <= count_total_candidates(grid)]_vars

\* a state some application has reached by removing candidates
C3_CountDecreased ==
    /\ pc = "idle"
    /\ count_total_candidates(grid) < count_total_candidates(constructed_grid)

(***************************************************************************)
(* Properties of SudokuSolver, under SpecSolve.                            *)
(***************************************************************************)
\* C4: solve terminates for every non-empty list: a pass of the outer loop
\* that does not exit strictly decreases the total it compares against, the
\* outer loop runs at most (initial total + 1) times, and solve returns.
C4_Terminates ==
    /\ [](outer_iterations <= count_total_candidates(grid_at_call) + 1)
    /\ [][(pc = "check" /\ pc' = "outer")
              => /\ last_total_number_of_candidates'
                      < last_total_number_of_candidates
                 /\ last_total_number_of_candidates' >= 0]_vars
    /\ [](pc = "outer" => <>(pc = "returned"))

\* solve has returned after going round the outer loop more than once
C4_ReturnedAfterProgress ==
    /\ pc = "returned"
    /\ outer_iterations >= 2

\* C5: solve is idempotent: a second solve of the puzzle a solve returned
\* changes no value and no list of candidates.
C5_Idempotent ==
    (pc = "returned" /\ calls >= 2) => grid = grid_at_call

\* C6: scan order: the first strategy applied is index 0; after an
\* application that decreased the total the next applied is index 0; after
\* an application of index k that did not, the next applied is k + 1.
C6_ScanOrder ==
    (pc = "inner" /\ strategy_index < Len(strategies))
        => IF prev_index = -1 \/ prev_progress
           THEN strategy_index = 0
           ELSE strategy_index = prev_index + 1

\* the scan is about to restart at index 0 after progress made by a
\* strategy that is not the first of the list
C6_RestartAfterLaterProgress ==
    /\ pc = "inner"
    /\ strategy_index < Len(strategies)
    /\ prev_progress
    /\ prev_index > 0
    /\ strategy_index = 0

\* C7: stalled exit: solve returns an unsolved puzzle only after every
\* strategy of the list was applied once, consecutively in list order, each
\* leaving the total candidate count as it was; it returns, it does not raise.
C7_StalledExit ==
    (pc \in {"returned", "raised"} /\ calls > 0 /\ Len(strategies) > 0
         /\ ~puzzle_is_solved(grid))
        => /\ pc = "returned"
           /\ no_progress_run = Len(strategies)
           /\ prev_index = Len(strategies) - 1

\* solve has returned an unsolved puzzle from a list of several strategies
C7_Stalled ==
    /\ pc = "returned"
    /\ ~puzzle_is_solved(grid)
    /\ Len(strategies) >= 2

\* C8: solved exit: once an application has made the puzzle solved, solve
\* applies no further strategy: it goes to its tests and returns.
C8_SolvedExit ==
    solved_by_application
        => /\ pc \in {"check", "returned"}
           /\ puzzle_is_solved(grid)

\* solve has returned a puzzle an application solved, with strategies of the
\* list left unapplied after it
C8_SolvedWithStrategiesLeft ==
    /\ pc = "returned"
    /\ solved_by_application
    /\ prev_index + 1 < Len(strategies)

C10_RaisedUntouched ==
    pc = "raised" => grid = grid_at_call

\* solve has raised on a puzzle that has cells to solve
C10_RaisedOnOpenPuzzle ==
    /\ pc = "raised"
    /\ ~puzzle_is_solved(grid)
    /\ grid = constructed_grid

(***************************************************************************)
(* Properties of the puzzle's interface, under SpecApi.                    *)
(***************************************************************************)
\* the string has length 81 and holds decimal digits only
well_formed(s) ==
    /\ Len(s) = NUMBER_OF_CELLS
    /\ \A k \in 1..Len(s) : s[k] \in Digits

\* C11: construction accepts exactly the strings of 81 decimal digits: a
\* string of any other length or with any other character makes it fail.
C11_AcceptsExactlyWellFormed ==
    outcome.op = "SudokuPuzzle"
        => ((outcome.raised = "none") <=> well_formed(sudoku_string))

\* C12: puzzle[row, col] returns the cell whose row_id is row and whose
\* col_id is col, with the state that cell has in the grid, for row and col
\* in 1..9; with an index outside 1..9 it fails with IndexError; a None
\* placeholder is never returned.
C12_GetItem ==
    outcome.op = "getitem" =>
        LET i == outcome.index[1]
            j == outcome.index[2]
        IN  IF i \in 1..NUMBER_OF_ROWS /\ j \in 1..NUMBER_OF_COLUMNS
            THEN /\ outcome.raised = "none"
                 /\ outcome.cell # None
                 /\ outcome.cell = cell_object(i, j, at(grid, <<i, j>>))
            ELSE outcome.raised = "IndexError"

\* an index 0 and an index 10 in one call, refused
C12_RefusedAtZeroAndTen ==
    /\ outcome.op = "getitem"
    /\ outcome.index = <<10, 0>>
    /\ outcome.raised = "IndexError"

\* C13: constructing a cell with an int value outside 0..9 fails; no cell
\* with a value outside 0..9 or a candidate outside 1..9 is created.
C13_CellValueChecked ==
    (outcome.op = "SudokuCell" /\ outcome.argument.type = "int") =>
        IF outcome.argument.int \in 0..9
        THEN outcome.raised = "none"
        ELSE /\ outcome.raised # "none"
             /\ outcome.cell = None

\* the list the test expects from to_box_id over the cells in row-major
\* order
box_ids_of_test ==
    <<1, 1, 1, 2, 2, 2, 3, 3, 3,
      1, 1, 1, 2, 2, 2, 3, 3, 3,
      1, 1, 1, 2, 2, 2, 3, 3, 3,
      4, 4, 4, 5, 5, 5, 6, 6, 6,
      4, 4, 4, 5, 5, 5, 6, 6, 6,
      4, 4, 4, 5, 5, 5, 6, 6, 6,
      7, 7, 7, 8, 8, 8, 9, 9, 9,
      7, 7, 7, 8, 8, 8, 9, 9, 9,
      7, 7, 7, 8, 8, 8, 9, 9, 9>>

\* C14: for row and col in 1..9, to_box_id(row, col) returns
\* ((row-1) div 3) * 3 + ((col-1) div 3) + 1 without raising, the result is
\* in 1..9 and is the entry of the test's list; every box id is the image of
\* exactly the 9 cells of its 3x3 block.
C14_BoxId ==
    (/\ outcome.op = "to_box_id"
     /\ outcome.index[1] \in 1..9
     /\ outcome.index[2] \in 1..9) =>
        LET row == outcome.index[1]
            col == outcome.index[2]
        IN  /\ outcome.raised = "none"
            /\ outcome.box_id = ((row - 1) \div 3) * 3 + ((col - 1) \div 3) + 1
            /\ outcome.box_id \in 1..9
            /\ outcome.box_id = box_ids_of_test[(row - 1) * 9 + col]
            /\ \A box_id \in 1..9 :
                    LET image == {p \in (1..9) \X (1..9) :
                                    /\ ~to_box_id_raises(p[1], p[2])
                                    /\ to_box_id(p[1], p[2]) = box_id}
                    IN  /\ image = ToSet(boxes[box_id])
                        /\ Cardinality(image) = 9
                        /\ \E r \in {1, 4, 7}, c \in {1, 4, 7} :
                                image = (r..(r + 2)) \X (c..(c + 2))

\* to_box_id(4, 7) returned 6
C14_BoxOfFourSeven ==
    /\ outcome.op = "to_box_id"
    /\ outcome.index = <<4, 7>>
    /\ outcome.raised = "none"
    /\ outcome.box_id = 6

\* the units that hold the cell at p, as indices of iterate_over_all_units
units_holding(p) ==
    {u \in 1..Len(iterate_over_all_units) :
        Contains(iterate_over_all_units[u], p)}

\* C15: a constructed puzzle has 81 cells and 27 units, the 9 rows, then
\* the 9 columns, then the 9 boxes; every unit holds 9 distinct cells; the
\* cell at (r, c) is held by row r, column c and box to_box_id(r, c) and by no
\* other unit, and a removal made on it through one unit is what the other
\* two units see.
C15_Units ==
    /\ (outcome.op = "SudokuPuzzle" /\ outcome.raised = "none") =>
        /\ Len(iterate_over_cells) = 81
        /\ ToSet(iterate_over_cells) = (1..9) \X (1..9)
        /\ Len(rows) = 9 /\ Len(columns) = 9 /\ Len(boxes) = 9
        /\ Len(iterate_over_all_units) = 27
        /\ \A u \in 1..9 :
                /\ iterate_over_all_units[u] = rows[u]
                /\ iterate_over_all_units[9 + u] = columns[u]
                /\ iterate_over_all_units[18 + u] = boxes[u]
        /\ \A u \in 1..27 :
                /\ Len(iterate_over_all_units[u]) = 9
                /\ Cardinality(ToSet(iterate_over_all_units[u])) = 9
        /\ \A r \in 1..9, c \in 1..9 :
                units_holding(<<r, c>>) = {r, 9 + c, 18 + to_box_id(r, c)}
    /\ outcome.op = "remove_candidate" =>
        /\ Cardinality(units_holding(outcome.cell)) = 3
        /\ outcome.unit \in units_holding(outcome.cell)
        /\ \A u \in units_holding(outcome.cell) :
                \E k \in 1..9 :
                    /\ iterate_over_all_units[u][k] = outcome.cell
                    /\ at(grid, iterate_over_all_units[u][k])
                        = remove_candidate(outcome.before, outcome.value)

\* a candidate was removed from an open cell through its box
C15_RemovedThroughBox ==
    /\ outcome.op = "remove_candidate"
    /\ outcome.unit > 18
    /\ Contains(outcome.before.candidates, outcome.value)
    /\ ~Contains(at(grid, outcome.cell).candidates, outcome.value)
    /\ Len(outcome.before.candidates) = 9

\* the decimal digits in order, and the number a digit character stands for
decimal_digits == <<"0", "1", "2", "3", "4", "5", "6", "7", "8", "9">>

digit_value(ch) == (CHOOSE k \in 1..10 : decimal_digits[k] = ch) - 1

\* every cell is as the digit at its row-major place of the string says: a
\* 0 leaves the cell unsolved with the candidates 1..9, a digit d makes it
\* solved with the one candidate d
as_constructed ==
    \A i \in 1..81 :
        LET row == ((i - 1) \div 9) + 1
            col == ((i - 1) % 9) + 1
            d == digit_value(sudoku_string[i])
        IN  /\ grid[row][col].value = d
            /\ d = 0 => /\ ~is_solved(grid[row][col])
                        /\ grid[row][col].candidates
                            = <<1, 2, 3, 4, 5, 6, 7, 8, 9>>
            /\ d # 0 => /\ is_solved(grid[row][col])
                        /\ grid[row][col].candidates = <<d>>

non_zero_digits == {i \in 1..81 : sudoku_string[i] # "0"}

\* C16: right after construction from a string of 81 digits every cell
\* holds the digit at its row-major place (0: unsolved with candidates 1..9,
\* d: solved with candidates {d}); on such a puzzle count_solved_cells is the
\* number of non-zero digits, 17 for the test string, and is_solved is true
\* exactly when the string has no "0".
C16_Constructed ==
    well_formed(sudoku_string) =>
        /\ (pc = "idle" /\ outcome.op = "SudokuPuzzle")
                => as_constructed
        /\ (outcome.op = "count_solved_cells" /\ as_constructed) =>
                /\ outcome.result = Cardinality(non_zero_digits)
                /\ sudoku_string = TestString => outcome.result = 17
        /\ (outcome.op = "is_solved" /\ as_constructed) =>
                (outcome.result <=> non_zero_digits = 1..81)

\* the test string was constructed and counted: 17 solved cells
C16_SeventeenGivens ==
    /\ sudoku_string = TestString
    /\ outcome.op = "count_solved_cells"
    /\ as_constructed
    /\ outcome.result = 17

\* the grid the constructor made of the string
fresh_grid == SudokuPuzzle_init(sudoku_string).grid

same_unit(p, q) ==
    \/ p[1] = q[1]
    \/ p[2] = q[2]
    \/ to_box_id(p[1], p[2]) = to_box_id(q[1], q[2])

\* some given cell has a blank cell in its row, column or box
given_with_blank_peer(g) ==
    \E p \in (1..9) \X (1..9) :
        /\ is_solved(at(g, p))
        /\ \E q \in (1..9) \X (1..9) :
                /\ q # p
                /\ same_unit(p, q)
                /\ ~is_solved(at(g, q))

\* C17: on a freshly constructed puzzle in which some given cell has a
\* blank cell in its row, column or box, one UniqueStrategy.apply, and a
\* solve with the list [UniqueStrategy], leave count_total_candidates
\* strictly smaller than it was before the call.
C17_UniqueMakesProgress ==
    constructed =>
        /\ (/\ outcome.op = "UniqueStrategy.apply"
            /\ outcome.before = fresh_grid
            /\ given_with_blank_peer(fresh_grid))
                => count_total_candidates(grid)
                        < count_total_candidates(outcome.before)
        /\ (/\ pc = "returned"
            /\ strategies = <<"UniqueStrategy">>
            /\ grid_at_call = fresh_grid
            /\ given_with_blank_peer(fresh_grid))
                => count_total_candidates(grid)
                        < count_total_candidates(grid_at_call)

\* solve with [UniqueStrategy] returned on the puzzle of the test string
C17_SolvedTestPuzzle ==
    /\ pc = "returned"
    /\ sudoku_string = TestString
    /\ strategies = <<"UniqueStrategy">>
    /\ grid_at_call = fresh_grid
    /\ given_with_blank_peer(fresh_grid)
    /\ count_total_candidates(grid) < count_total_candidates(grid_at_call)

\* C18: remove_all_candidates_except(v) on a cell whose candidates do not
\* contain v leaves the cell's candidates and value as they were; when v is
\* a candidate the cell ends with the candidates [v] and the value v.
C18_RemoveAllExcept ==
    outcome.op = "remove_all_candidates_except" =>
        LET after == at(grid, outcome.cell)
        IN  IF \E k \in 1..Len(outcome.before.candidates) :
                    outcome.before.candidates[k] = outcome.value
            THEN /\ after.candidates = <<outcome.value>>
                 /\ after.value = outcome.value
            ELSE /\ after.candidates = outcome.before.candidates
                 /\ after.value = outcome.before.value

\* the call was made on an unsolved cell that had lost the value among
\* other candidates, and changed nothing
C18_NoOpOnOpenCell ==
    /\ outcome.op = "remove_all_candidates_except"
    /\ outcome.before.value = 0
    /\ Len(outcome.before.candidates) > 1
    /\ ~Contains(outcome.before.candidates, outcome.value)
    /\ at(grid, outcome.cell) = outcome.before

\* the pairs (v, cell) of a unit in which v is a candidate of that cell and
\* of no other cell of the unit
unique_pairs(g, unit) ==
    {e \in (1..9) \X ToSet(unit) :
        /\ \E k \in 1..Len(at(g, e[2]).candidates) :
                at(g, e[2]).candidates[k] = e[1]
        /\ \A q \in ToSet(unit) \ {e[2]} :
                \A k \in 1..Len(at(g, q).candidates) :
                    at(g, q).candidates[k] # e[1]}

\* C19: get_unique_candidates_and_belonging_cells returns, once each, the
\* pairs (v, cell) in which v is among the candidates of exactly one cell of
\* the unit and cell is that cell, and nothing else; it changes no cell.
C19_UniquePairs ==
    outcome.op = "get_unique_candidates_and_belonging_cells" =>
        /\ ToSet(outcome.result)
            = unique_pairs(grid, iterate_over_all_units[outcome.unit])
        /\ Len(outcome.result) = Cardinality(ToSet(outcome.result))
        /\ grid = outcome.before

\* the call returned a hidden single: a pair whose cell is unsolved, from a
\* unit in which another value is a candidate of several cells
C19_FoundHiddenSingle ==
    /\ outcome.op = "get_unique_candidates_and_belonging_cells"
    /\ \E k \in 1..Len(outcome.result) :
            ~is_solved(at(grid, outcome.result[k][2]))
    /\ \E v \in 1..9 :
            Len(candidate_cells(grid, iterate_over_all_units[outcome.unit], v))
                > 1

\* one unit of the "hidden singles" loop, with what it did: promoted, the
\* cells of the list that were unsolved when remove_all_candidates_except
\* reached them and solved after it; missed, the entries whose candidate was
\* no longer in the cell when the call was made
fill_hidden_singles_tracked(state, unit) ==
    FoldLeft(LAMBDA acc, e :
                 LET promoted_grid ==
                         update(acc.g, e[2],
                                LAMBDA c : remove_all_candidates_except(c, e[1]))
                 IN  [g |-> prune_solved_value_from_units_containing_cell(
                                promoted_grid, e[2]),
                      promoted |->
                          IF /\ ~is_solved(at(acc.g, e[2]))
                             /\ is_solved(at(promoted_grid, e[2]))
                          THEN acc.promoted \cup {e[2]}
                          ELSE acc.promoted,
                      missed |->
                          IF Contains(at(acc.g, e[2]).candidates, e[1])
                          THEN acc.missed
                          ELSE acc.missed \cup {e}],
             state, get_unique_candidates_and_belonging_cells(state.g, unit))

\* UniqueStrategy.apply with what its second loop did
UniqueStrategy_tracked(g) ==
    LET g1 == FoldLeft(prune_solved_value_from_units_containing_cell,
                       g, iterate_over_cells)
    IN  FoldLeft(fill_hidden_singles_tracked,
                 [g |-> g1, promoted |-> {}, missed |-> {}],
                 iterate_over_all_units)

\* the value of the cell at p is a candidate of no unsolved cell of its
\* row, column or box
pruned_from_peers(g, p) ==
    \A q \in (1..9) \X (1..9) :
        (q # p /\ same_unit(p, q) /\ ~is_solved(at(g, q)))
            => \A k \in 1..Len(at(g, q).candidates) :
                    at(g, q).candidates[k] # at(g, p).value

solved_cells(g) == {p \in (1..9) \X (1..9) : is_solved(at(g, p))}

\* C20: when UniqueStrategy.apply has returned, the value of every cell
\* that was solved when the application started, and of every cell the
\* application promoted as a hidden single, is a candidate of no unsolved
\* cell of the same row, column or box.
C20_PrunedAfterUnique ==
    outcome.op = "UniqueStrategy.apply" =>
        \A p \in solved_cells(outcome.before)
                    \cup UniqueStrategy_tracked(outcome.before).promoted :
            /\ is_solved(at(grid, p))
            /\ pruned_from_peers(grid, p)

\* an application promoted a hidden single and left unsolved cells in its
\* units; the tracked run ends in the grid the application left
C20_PromotedWithOpenPeers ==
    /\ outcome.op = "UniqueStrategy.apply"
    /\ UniqueStrategy_tracked(outcome.before).g = grid
    /\ \E p \in UniqueStrategy_tracked(outcome.before).promoted :
            \E q \in (1..9) \X (1..9) :
                q # p /\ same_unit(p, q) /\ ~is_solved(at(grid, q))

(***************************************************************************)
(* Properties of the strategies, under SpecSound and SpecApply.            *)
(***************************************************************************)
\* C21: in every state reached from a puzzle with a solution by the
\* strategies other than the rectangle strategy, every call of
\* remove_all_candidates_except(candidate) that UniqueStrategy.apply makes
\* finds candidate among the candidates of the cell.
C21_PromotionNeverMisses ==
    (outcome.op = "apply" /\ outcome.strategy = "UniqueStrategy") =>
        /\ UniqueStrategy_tracked(outcome.before).missed = {}
        /\ UniqueStrategy_tracked(outcome.before).g = grid

\* an application promoted a hidden single: a cell that had several
\* candidates when the application started
C21_PromotedHiddenSingle ==
    /\ outcome.op = "apply"
    /\ outcome.strategy = "UniqueStrategy"
    /\ UniqueStrategy_tracked(outcome.before).missed = {}
    /\ \E p \in UniqueStrategy_tracked(outcome.before).promoted :
            /\ Len(at(outcome.before, p).candidates) > 1
            /\ Len(at(grid, p).candidates) = 1

\* the grids HiddenCandidatePairStrategy.apply passes through: scans[u] is
\* the grid when the scan of the u-th unit starts, scans[u + 1] when it ends
hidden_pair_scans(g) ==
    FoldLeft(LAMBDA acc, unit : Append(acc, hidden_pair_unit(acc[Len(acc)], unit)),
             <<g>>, iterate_over_all_units)

\* the cells of a unit that list a value
listing(g, unit, v) ==
    {p \in ToSet(unit) : v \in ToSet(at(g, p).candidates)}

\* the pairs of distinct values that occur in the same two cells of the unit
\* and in no other cell of it
hidden_pairs(g, unit) ==
    {pair \in (1..9) \X (1..9) :
        /\ pair[1] < pair[2]
        /\ Cardinality(listing(g, unit, pair[1])) = 2
        /\ listing(g, unit, pair[1]) = listing(g, unit, pair[2])}

\* C22: when HiddenCandidatePairStrategy scans a unit in which two distinct
\* values occur in exactly the same two cells, both cells have exactly that
\* pair as candidates after the scan of the unit; the scan changes no cell
\* that is not in such a pair.
C22_HiddenPair ==
    (outcome.op = "apply"
        /\ outcome.strategy = "HiddenCandidatePairStrategy") =>
        LET scans == hidden_pair_scans(outcome.before)
        IN  /\ scans[Len(scans)] = grid
            /\ \A u \in 1..Len(iterate_over_all_units) :
                LET unit == iterate_over_all_units[u]
                    pairs == hidden_pairs(scans[u], unit)
                    in_pair == UNION {listing(scans[u], unit, pair[1]) :
                                        pair \in pairs}
                IN  /\ \A pair \in pairs :
                            \A p \in listing(scans[u], unit, pair[1]) :
                                ToSet(at(scans[u + 1], p).candidates)
                                    = {pair[1], pair[2]}
                    /\ \A p \in ToSet(iterate_over_cells) \ in_pair :
                            at(scans[u + 1], p) = at(scans[u], p)

\* the candidates of the cell at p, as a set
candidate_set(g, p) == ToSet(at(g, p).candidates)

\* the pairs of cells of the unit holding the same two candidates, whatever
\* the order of the two lists
naked_pairs(g, unit) ==
    {cells \in ToSet(unit) \X ToSet(unit) :
        /\ cells[1] # cells[2]
        /\ Cardinality(candidate_set(g, cells[1])) = 2
        /\ candidate_set(g, cells[1]) = candidate_set(g, cells[2])}

\* C23: NakedPairStrategy: whenever two cells of a unit hold the same two
\* candidates (equal as sets, the order of the lists aside) when the strategy
\* is applied, after the application no other cell of the unit lists either
\* value and the two cells still list both.
C23_NakedPair ==
    (outcome.op = "apply" /\ outcome.strategy = "NakedPairStrategy") =>
        \A u \in 1..Len(iterate_over_all_units) :
            LET unit == iterate_over_all_units[u]
            IN  \A cells \in naked_pairs(outcome.before, unit) :
                    LET pair == candidate_set(outcome.before, cells[1])
                    IN  /\ \A p \in ToSet(unit) \ {cells[1], cells[2]} :
                                candidate_set(grid, p) \cap pair = {}
                        /\ candidate_set(grid, cells[1]) = pair
                        /\ candidate_set(grid, cells[2]) = pair

\* BoxLineInterpolationStrategy.apply: the grid before and after the scan of
\* each box
box_line_scans(g) ==
    FoldLeft(LAMBDA acc, box :
                 Append(acc, box_line_interpolation_box(acc[Len(acc)], box)),
             <<g>>, boxes)

\* C24: BoxLineInterpolationStrategy: for every box and value, if when the box
\* is scanned the cells of the box listing the value (one cell or more) all lie
\* in one row (one column), then after the application no cell of that row
\* (column) outside the box lists the value; the scan of a box changes no cell
\* of that box.
C24_BoxLineInterpolation ==
    (outcome.op = "apply" /\ outcome.strategy = "BoxLineInterpolationStrategy") =>
        LET scans == box_line_scans(outcome.before)
        IN  /\ scans[Len(scans)] = grid
            /\ \A b \in 1..Len(boxes) : \A v \in 1..9 :
                   LET cells == listing(scans[b], boxes[b], v)
                       row_ids == {p[1] : p \in cells}
                       col_ids == {p[2] : p \in cells}
                   IN  /\ Cardinality(row_ids) = 1 =>
                           \A p \in ToSet(rows[CHOOSE r \in row_ids : TRUE])
                                        \ ToSet(boxes[b]) :
                               v \notin candidate_set(grid, p)
                       /\ Cardinality(col_ids) = 1 =>
                           \A p \in ToSet(columns[CHOOSE c \in col_ids : TRUE])
                                        \ ToSet(boxes[b]) :
                               v \notin candidate_set(grid, p)
            /\ \A b \in 1..Len(boxes) : \A p \in ToSet(boxes[b]) :
                   at(scans[b + 1], p) = at(scans[b], p)

\* the four corner cells of the rectangle
corners(g, top_left, bottom_right) ==
    <<at(g, top_left), at(g, <<top_left[1], bottom_right[2]>>),
      at(g, <<bottom_right[1], top_left[2]>>), at(g, bottom_right)>>

\* RectangleCornerReductionsStrategy.apply, noting whether the processing of
\* each rectangle left the four corners of that rectangle as they were
rectangle_tracked(g, set_order) ==
    FoldLeft(LAMBDA acc1, row :
        FoldLeft(LAMBDA acc2, top_left :
            FoldLeft(LAMBDA acc3, bottom_right :
                LET g1 == rectangle(acc3.g, top_left, bottom_right, set_order)
                IN  [g |-> g1,
                     corners_kept |->
                         /\ acc3.corners_kept
                         /\ corners(g1, top_left, bottom_right)
                                = corners(acc3.g, top_left, bottom_right)],
              acc2, bottom_right_corners(top_left)),
          acc1, row),
      [g |-> g, corners_kept |-> TRUE], rows)

\* C25: RectangleCornerReductionsStrategy.apply never removes the only
\* candidate of a cell: the processing of a rectangle leaves its four corners
\* unchanged, and no solved cell, a corner or not, loses its single candidate
\* over the application.
C25_RectangleKeepsSolved ==
    (outcome.op = "apply"
        /\ outcome.strategy = "RectangleCornerReductionsStrategy") =>
        /\ \A set_order \in SetOrders :
               LET tracked == rectangle_tracked(outcome.before, set_order)
               IN  tracked.g = grid /\ tracked.corners_kept
        /\ \A p \in ToSet(iterate_over_cells) :
               Len(at(outcome.before, p).candidates) = 1 =>
                   at(grid, p).candidates = at(outcome.before, p).candidates

\* C26: restricted soundness: on a puzzle with one solution, after any
\* sequence of applications of the six strategies other than the rectangle
\* strategy, every cell lists its solution digit and every solved cell has its
\* solution digit as value.
C26_RestrictedSoundness ==
    \A i \in 1..NUMBER_OF_CELLS :
        LET cell == at(grid, iterate_over_cells[i])
        IN  /\ solution_digit(i) \in ToSet(cell.candidates)
            /\ cell.value # NO_SOLUTION_VALUE => cell.value = solution_digit(i)

\* a blank of the string has been solved and a strategy other than
\* UniqueStrategy has just removed candidates
C26_SolvedAndReduced ==
    /\ outcome.op = "apply"
    /\ outcome.strategy # "UniqueStrategy"
    /\ grid # outcome.before
    /\ \E p \in ToSet(iterate_over_cells) :
           /\ at(constructed_grid, p).value = NO_SOLUTION_VALUE
           /\ at(grid, p).value # NO_SOLUTION_VALUE

\* every row, column and box holds each of the digits 1..9 once
valid_completed(g) ==
    \A u \in 1..Len(iterate_over_all_units) :
        {at(g, p).value : p \in ToSet(iterate_over_all_units[u])}
            = ToSet(DEFAULT_POSSIBLE_CELL_VALUE)

\* C27: whenever solve returns a puzzle for which is_solved() is true, the
\* grid is a valid completed Sudoku (each digit 1..9 once in every row, column
\* and box) and every given of the string still holds its digit.
C27_SolvedIsValid ==
    (pc = "returned" /\ puzzle_is_solved(grid)) =>
        /\ valid_completed(grid)
        /\ \A p \in ToSet(iterate_over_cells) :
               at(constructed_grid, p).value # NO_SOLUTION_VALUE =>
                   at(grid, p).value = at(constructed_grid, p).value

\* C28: the value of a cell is stable once set: a cell with value v # 0, a
\* given or a cell solved by a strategy, has value v after every later
\* strategy application.
C28_ValueStable ==
    [][\A p \in ToSet(iterate_over_cells) :
           at(grid, p).value # NO_SOLUTION_VALUE =>
               at(grid', p).value = at(grid, p).value]_vars

\* an application changed the candidates of a cell that had a value, and a
\* cell solved by an earlier application was there to be kept
C28_SolvedCellTouched ==
    /\ outcome.op = "apply"
    /\ \E p \in ToSet(iterate_over_cells) :
           /\ at(outcome.before, p).value # NO_SOLUTION_VALUE
           /\ at(grid, p).candidates # at(outcome.before, p).candidates
    /\ \E p \in ToSet(iterate_over_cells) :
           /\ at(constructed_grid, p).value = NO_SOLUTION_VALUE
           /\ at(outcome.before, p).value # NO_SOLUTION_VALUE

\* C29: candidates only shrink: after every strategy application the set of
\* candidates of each cell is a subset of the set the cell had before it.
C29_CandidatesShrink ==
    outcome.op = "apply" =>
        \A p \in ToSet(iterate_over_cells) :
            candidate_set(grid, p) \subseteq candidate_set(outcome.before, p)

\* a hidden pair or hidden triplet application replaced the candidates of a
\* cell by fewer
C29_SetCandidatesShrank ==
    /\ outcome.op = "apply"
    /\ outcome.strategy \in {"HiddenCandidatePairStrategy",
                             "HiddenCandidateTripletStrategy"}
    /\ \E p \in ToSet(iterate_over_cells) :
           /\ candidate_set(grid, p) # candidate_set(outcome.before, p)
           /\ Cardinality(candidate_set(grid, p)) > 1

\* C30: weak cell invariant, in every state reached by strategy applications:
\* a cell with exactly one candidate has that candidate as value, and a cell
\* with a value has at most one candidate.
C30_WeakCellInvariant ==
    \A p \in ToSet(iterate_over_cells) :
        LET cell == at(grid, p)
        IN  /\ Len(cell.candidates) = 1 => cell.value = cell.candidates[1]
            /\ cell.value # NO_SOLUTION_VALUE => Len(cell.candidates) <= 1

\* after an application one cell has a value and no candidate, and a blank
\* of the string has a value and one candidate
C30_StrippedAndPromoted ==
    /\ outcome.op = "apply"
    /\ \E p \in ToSet(iterate_over_cells) :
           /\ at(grid, p).value # NO_SOLUTION_VALUE
           /\ Len(at(grid, p).candidates) = 0
    /\ \E p \in ToSet(iterate_over_cells) :
           /\ at(constructed_grid, p).value = NO_SOLUTION_VALUE
           /\ Len(at(grid, p).candidates) = 1

====
